---- MODULE Spec2Model ----
(***************************************************************************)
(* Model of api_bingo.py: the APIBingo matcher (error_patterns table,      *)
(* check_response, get_score, is_bingo) and the demo driver main().        *)
(*                                                                         *)
(* Python values are tagged records [kind, s, n, d]:                       *)
(*   kind  "str" | "int" | "float" | "bool" | "NoneType" | "dict" | "list" *)
(*         | "type" (a class object such as str)                           *)
(*   s     the text of a str, the name of a class                          *)
(*   n     the numeric value of an int, float or bool (False 0, True 1)    *)
(*   d     the items of a dict (or the indexed elements of a list), a set  *)
(*         of <<key, scalar>> pairs, scalars being records [kind, s, n]    *)
(* A response is a function from a set of string keys to values.           *)
(*                                                                         *)
(* State: found_patterns is self.found_patterns; response, found and       *)
(* outcome are the argument, the returned list and the outcome ("none"     *)
(* before any call, "returned", or the exception raised) of the latest     *)
(* check_response call; previous is the same for the call before it;       *)
(* caller is the program driving the matcher and i its loop index.         *)
(***************************************************************************)
EXTENDS Integers, Sequences, FiniteSets, TLC

VARIABLES found_patterns, response, found, outcome, caller, i, previous

vars == <<found_patterns, response, found, outcome, caller, i, previous>>

----------------------------------------------------------------------------
(* Python values *)

Scalar(k, s, n) == [kind |-> k, s |-> s, n |-> n]

Val(k, s, n, d) == [kind |-> k, s |-> s, n |-> n, d |-> d]

PyStr(s) == Val("str", s, 0, {})

PyInt(n) == Val("int", "", n, {})

PyFloat(n) == Val("float", "", n, {})

PyFalse == Val("bool", "", 0, {})

PyTrue == Val("bool", "", 1, {})

PyNone == Val("NoneType", "", 0, {})

PyDict(items) == Val("dict", "", 0, items)

PyList(items) == Val("list", "", 0, items)

SStr(s) == Scalar("str", s, 0)

SInt(n) == Scalar("int", "", n)

SNone == Scalar("NoneType", "", 0)

NumericKinds == {"int", "float", "bool"}

\* == on scalars: numbers (bool included) compare by numeric value, strings by
\* text, None only equals None, anything else is unequal.
ScalarEq(a, b) ==
    IF a.kind \in NumericKinds /\ b.kind \in NumericKinds THEN a.n = b.n
    ELSE IF a.kind = "str" /\ b.kind = "str" THEN a.s = b.s
    ELSE a.kind = "NoneType" /\ b.kind = "NoneType"

DictKeys(v) == {it[1] : it \in v.d}

\* == on dict (and list) items: same keys, and equal values under each key.
ItemsEq(a, b) ==
    /\ DictKeys(a) = DictKeys(b)
    /\ \A x \in a.d : \A y \in b.d : x[1] = y[1] => ScalarEq(x[2], y[2])

\* actual_value == expected_type as Python evaluates it.
PyEq(a, b) ==
    IF a.kind \in NumericKinds /\ b.kind \in NumericKinds THEN a.n = b.n
    ELSE IF a.kind = "str" /\ b.kind = "str" THEN a.s = b.s
    ELSE IF a.kind = "NoneType" /\ b.kind = "NoneType" THEN TRUE
    ELSE IF a.kind = "dict" /\ b.kind = "dict" THEN ItemsEq(a, b)
    ELSE IF a.kind = "list" /\ b.kind = "list" THEN ItemsEq(a, b)
    ELSE IF a.kind = "type" /\ b.kind = "type" THEN a.s = b.s
    ELSE FALSE

\* isinstance(v, cls) for a class object cls; bool is a subclass of int.
PyIsInstance(v, cls) ==
    \/ v.kind = cls.s
    \/ cls.s = "int" /\ v.kind = "bool"
    \/ cls.s = "object"

\* isinstance(v, type): v is itself a class object.
IsTypeObject(v) == v.kind = "type"

\* isinstance(v, dict)
IsDict(v) == v.kind = "dict"

----------------------------------------------------------------------------
(* APIBingo.__init__ *)

\* self.error_patterns, in insertion order.
error_patterns ==
    << [pattern |-> "error",         expected_type |-> PyStr("message")],
       [pattern |-> "error_message", expected_type |-> PyStr("string")],
       [pattern |-> "err",           expected_type |-> PyStr("msg")],
       [pattern |-> "message",       expected_type |-> PyStr("error")],
       [pattern |-> "status",        expected_type |-> PyStr("error")],
       [pattern |-> "result",        expected_type |-> PyStr("failure")],
       [pattern |-> "success",       expected_type |-> PyFalse],
       [pattern |-> "code",          expected_type |-> PyInt(500)],
       [pattern |-> "data",          expected_type |-> PyNone],
       [pattern |-> "details",       expected_type |-> PyStr("")],
       [pattern |-> "trace",         expected_type |-> PyStr("stack")],
       [pattern |-> "fault",
        expected_type |-> PyDict({<<"faultstring", SStr("string")>>})] >>

PatternNames == {error_patterns[k].pattern : k \in 1..Len(error_patterns)}

Range(seq) == {seq[k] : k \in 1..Len(seq)}

----------------------------------------------------------------------------
(* APIBingo.check_response *)

\* Contains without the membership test: every pattern is looked up.
Contains_Always(response_data, pattern) == TRUE

\* pattern in response_data
Contains(response_data, pattern) == pattern \in DOMAIN response_data

\* response_data[pattern]: the value, or KeyError for a missing key.
GetItem(response_data, pattern) ==
    IF pattern \in DOMAIN response_data
    THEN [raised |-> "none", value |-> response_data[pattern]]
    ELSE [raised |-> "KeyError", value |-> PyNone]

\* Matches without the nested-fault branch: equality is the only check left.
Matches_EqualityOnly(expected_type, actual_value) ==
    IF IsTypeObject(expected_type)
    THEN PyIsInstance(actual_value, expected_type)
    ELSE PyEq(actual_value, expected_type)

\* Matches that looks for faultstring in expected_type, not in actual_value.
Matches_FaultstringOfExpected(expected_type, actual_value) ==
    IF IsTypeObject(expected_type)
    THEN PyIsInstance(actual_value, expected_type)
    ELSE IF PyEq(actual_value, expected_type)
    THEN TRUE
    ELSE IF IsDict(expected_type) /\ IsDict(actual_value)
    THEN "faultstring" \in DictKeys(expected_type)
    ELSE FALSE

\* The if / elif / elif chain on one (expected_type, actual_value) pair: TRUE
\* when the pattern is appended to found.
Matches(expected_type, actual_value) ==
    IF IsTypeObject(expected_type)
    THEN PyIsInstance(actual_value, expected_type)
    ELSE IF PyEq(actual_value, expected_type)
    THEN TRUE
    ELSE IF IsDict(expected_type) /\ IsDict(actual_value)
    THEN "faultstring" \in DictKeys(actual_value)
    ELSE FALSE

\* The body of the for loop for one (pattern, expected_type) item: "append"
\* when the pattern is appended to found, "skip" when it is not, "KeyError"
\* when response_data[pattern] raises.
LoopBody(pattern, expected_type, response_data) ==
    IF Contains(response_data, pattern)
    THEN LET actual_value == GetItem(response_data, pattern) IN
         IF actual_value.raised # "none" THEN actual_value.raised
         ELSE IF Matches(expected_type, actual_value.value)
         THEN "append" ELSE "skip"
    ELSE "skip"

\* The for loop from item k on, with the list found built so far.
RECURSIVE Loop(_, _, _)
Loop(k, acc, response_data) ==
    IF k > Len(error_patterns) THEN [found |-> acc, raised |-> "none"]
    ELSE LET item == error_patterns[k]
             r == LoopBody(item.pattern, item.expected_type, response_data)
         IN  IF r = "KeyError" THEN [found |-> acc, raised |-> "KeyError"]
             ELSE Loop(k + 1,
                       IF r = "append" THEN Append(acc, item.pattern) ELSE acc,
                       response_data)

\* SetUpdate that assigns instead of updating: found_patterns = set(found).
SetUpdate_Replace(fp, lst) == Range(lst)

\* self.found_patterns.update(found)
SetUpdate(fp, lst) == fp \cup Range(lst)

\* The catalogue names in catalogue order.
PatternSeq == [k \in 1..Len(error_patterns) |-> error_patterns[k].pattern]

\* check_response that updates found_patterns with the response's keys.
check_response_UpdateKeys(fp, response_data) ==
    LET l == Loop(1, <<>>, response_data) IN
    [found_patterns |-> fp \cup DOMAIN response_data,
     found |-> l.found, raised |-> l.raised]

\* check_response that returns only the patterns not found before.
check_response_OnlyNew(fp, response_data) ==
    LET l == Loop(1, <<>>, response_data) IN
    [found_patterns |-> fp \cup Range(l.found),
     found |-> SelectSeq(l.found, LAMBDA n : n \notin fp),
     raised |-> l.raised]

\* check_response that returns everything accumulated so far.
check_response_Cumulative(fp, response_data) ==
    LET l == Loop(1, <<>>, response_data)
        all == fp \cup Range(l.found)
    IN  [found_patterns |-> all,
         found |-> SelectSeq(PatternSeq, LAMBDA n : n \in all),
         raised |-> l.raised]

\* check_response on a matcher whose found_patterns is fp: the returned list,
\* the updated found_patterns, and the exception raised if any (the update is
\* not reached when the loop raises).
check_response(fp, response_data) ==
    LET l == Loop(1, <<>>, response_data) IN
    IF l.raised = "none"
    THEN [found_patterns |-> SetUpdate(fp, l.found),
          found |-> l.found, raised |-> "none"]
    ELSE [found_patterns |-> fp, found |-> <<>>, raised |-> l.raised]

\* get_score
get_score(fp) == Cardinality(fp)

BingoThreshold == 5

\* is_bingo
is_bingo(fp) == get_score(fp) >= BingoThreshold

----------------------------------------------------------------------------
(* main(): the demo driver *)

\* sample_responses
sample_responses ==
    << ("error" :> PyStr("Invalid token")) @@ ("code" :> PyInt(401)),
       ("message" :> PyStr("Not found")) @@ ("success" :> PyFalse),
       ("err" :> PyStr("Database timeout")) @@ ("trace" :> PyStr("java.lang...")),
       ("status" :> PyStr("error")) @@ ("details" :> PyStr("Missing parameter")),
       ("fault" :> PyDict({<<"faultstring", SStr("Rate limit exceeded")>>})),
       ("result" :> PyStr("failure")) @@ ("data" :> PyNone) >>

\* The responses of the threshold scenario, in the order they are fed.
threshold_responses ==
    << ("error" :> PyStr("a")),
       ("err" :> PyStr("b")),
       ("message" :> PyStr("c")),
       ("error_message" :> PyStr("d")),
       ("status" :> PyStr("error")) >>

----------------------------------------------------------------------------
(* Inputs *)

\* The largest number of keys of a generated response.
MaxKeys == 2

\* The empty mapping {}.
EmptyResponse == [k \in {} |-> PyNone]

\* Keys a response may carry: the catalogue's and two outside it.
Keys == PatternNames \cup {"other", "faultstring"}

\* Values of every JSON kind, the catalogue's literals among them.
Values ==
    { PyStr("message"), PyStr("string"), PyStr("msg"), PyStr("error"),
      PyStr("failure"), PyStr(""), PyStr("stack"), PyStr("500"), PyStr("a"),
      PyStr("faultstring"), PyStr("False"),
      PyInt(0), PyInt(1), PyInt(500), PyInt(401), PyFloat(0), PyFloat(500),
      PyFalse, PyTrue, PyNone,
      PyDict({}), PyDict({<<"faultstring", SStr("x")>>}),
      PyDict({<<"faultstring", SStr("string")>>}),
      PyDict({<<"faultstring", SNone>>}),
      PyDict({<<"faultstring", SInt(0)>>}),
      PyDict({<<"other", SStr("x")>>}),
      PyDict({<<"faultstring", SStr("x")>>, <<"other", SStr("x")>>}),
      PyList({}), PyList({<<"0", SStr("faultstring")>>}) }

\* Values of the responses with more than one key.
FewValues ==
    { PyStr("a"), PyStr("error"), PyInt(0), PyInt(500), PyFalse, PyNone,
      PyDict({<<"faultstring", SStr("x")>>}) }

\* Every response with one key, every response of up to MaxKeys keys over
\* FewValues, the empty response and the scenarios' responses.
CheckResponses ==
    UNION { [D -> IF Cardinality(D) <= 1 THEN Values ELSE FewValues] :
            D \in {S \in SUBSET Keys : Cardinality(S) <= MaxKeys} }
    \cup Range(sample_responses) \cup Range(threshold_responses)

\* The response that carries the literals of catalogue entries lo..hi.
Literals(lo, hi) ==
    LET names == {error_patterns[k].pattern : k \in lo..hi} IN
    [n \in names |->
        (CHOOSE k \in lo..hi : error_patterns[k].pattern = n) ]

LiteralResponse(lo, hi) ==
    LET idx == Literals(lo, hi) IN
    [n \in DOMAIN idx |-> error_patterns[idx[n]].expected_type]

\* Responses of a client that keeps one matcher over many calls: the
\* catalogue's literals in three responses of four keys, values that differ
\* from the literal, the empty response, a key outside the catalogue, and the
\* scenarios' responses.
ClientResponses ==
    { LiteralResponse(1, 4), LiteralResponse(5, 8), LiteralResponse(9, 12) }
    \cup { (n :> PyStr("a")) : n \in {"error", "code", "fault"} }
    \cup { EmptyResponse, ("other" :> PyStr("error")), ("success" :> PyInt(0)),
           ("fault" :> PyDict({<<"other", SStr("x")>>})) }
    \cup Range(sample_responses) \cup Range(threshold_responses)

----------------------------------------------------------------------------
(* State machine *)

\* bingo = APIBingo(): the catalogue is fixed, found_patterns is empty.
Construct ==
    /\ found_patterns = {}
    /\ found = <<>>
    /\ outcome = "none"
    /\ i = 0
    /\ previous = [called |-> FALSE, response |-> EmptyResponse,
                   found |-> <<>>, found_patterns |-> {}]

\* One call bingo.check_response(r): found_patterns is updated, found is the
\* returned list, outcome tells whether the call returned or raised; previous
\* keeps what the call before it was given, returned and left accumulated.
Call(r) ==
    LET o == check_response(found_patterns, r) IN
    /\ found_patterns' = o.found_patterns
    /\ found' = o.found
    /\ outcome' = IF o.raised = "none" THEN "returned" ELSE o.raised
    /\ response' = r
    /\ previous' = [called |-> outcome # "none", response |-> response,
                    found |-> found, found_patterns |-> found_patterns]

\* One iteration of the for loop of main(): the next sample is checked.
main ==
    /\ caller = "main"
    /\ i < Len(sample_responses)
    /\ outcome \in {"none", "returned"}
    /\ Call(sample_responses[i + 1])
    /\ i' = i + 1
    /\ UNCHANGED caller

\* One step of the threshold scenario: the next response is checked.
threshold ==
    /\ caller = "threshold"
    /\ i < Len(threshold_responses)
    /\ outcome \in {"none", "returned"}
    /\ Call(threshold_responses[i + 1])
    /\ i' = i + 1
    /\ UNCHANGED caller

\* A client that embeds the matcher calls check_response with any response.
client ==
    /\ caller = "client"
    /\ \E r \in ClientResponses : Call(r)
    /\ UNCHANGED <<caller, i>>

\* A single call on a fresh matcher with the response drawn at the start.
check_once ==
    /\ caller = "once"
    /\ outcome = "none"
    /\ Call(response)
    /\ UNCHANGED <<caller, i>>

Init ==
    /\ Construct
    /\ caller \in {"main", "threshold", "client"}
    /\ response = EmptyResponse

Next == main \/ threshold \/ client

Spec == Init /\ [][Next]_vars

InitCheck ==
    /\ Construct
    /\ caller = "once"
    /\ response \in CheckResponses

NextCheck == check_once

SpecCheck == InitCheck /\ [][NextCheck]_vars

\* get_score() and is_bingo() of the matcher in the current state.
score == get_score(found_patterns)

bingo == is_bingo(found_patterns)

----------------------------------------------------------------------------
(* Properties *)

\* The catalogue's expected shape for a catalogue name.
Expected(n) ==
    error_patterns[CHOOSE k \in 1..Len(error_patterns) :
                       error_patterns[k].pattern = n].expected_type

Returned == outcome = "returned"

Matched(n) == n \in Range(found)

StringNames == {"error", "error_message", "err", "message"}

LiteralNames ==
    {"status", "result", "success", "code", "data", "details", "trace"}

\* The kind of a value as the catalogue's contract sees it: int and float are
\* both numbers, a boolean is not a number.
JsonKind(v) == IF v.kind \in {"int", "float"} THEN "number" ELSE v.kind

\* Equality by value and by kind.
KindEq(a, b) == JsonKind(a) = JsonKind(b) /\ PyEq(a, b)

NoDuplicates(seq) ==
    \A a, b \in 1..Len(seq) : seq[a] = seq[b] => a = b

\* The catalogue names a response matches, from the response alone.
MatchedNames(r) ==
    {n \in PatternNames : n \in DOMAIN r /\ Matches(Expected(n), r[n])}

\* C1: for error, error_message, err and message, a response that carries the
\* key matches the entry if and only if the value at the key is a string.
C1_StringEntriesMatchAnyString ==
    Returned =>
        \A n \in StringNames :
            n \in DOMAIN response =>
                (Matched(n) <=> response[n].kind = "str")

\* C2: a literal entry (status, result, success, code, data, details, trace)
\* is matched if and only if the value at its key equals the catalogue literal
\* by value and by kind, so 0 does not match success and False does.
C2_LiteralEntriesMatchByKind ==
    Returned =>
        \A n \in LiteralNames :
            n \in DOMAIN response =>
                (Matched(n) <=> KindEq(response[n], Expected(n)))

\* C3: fault is matched if and only if the value at key fault is a mapping
\* that has the key faultstring, whatever faultstring's value.
C3_FaultIffMappingWithFaultstring ==
    Returned =>
        (Matched("fault") <=>
            /\ "fault" \in DOMAIN response
            /\ response["fault"].kind = "dict"
            /\ "faultstring" \in DictKeys(response["fault"]))

C3_Witness ==
    /\ Returned
    /\ caller = "once"
    /\ response = ("fault" :> PyDict({<<"faultstring", SNone>>}))
    /\ found = <<"fault">>

MainDone == caller = "main" /\ i = Len(sample_responses)

C5_ThresholdScenario ==
    /\ (caller = "threshold" /\ i = 4) => (score = 4 /\ ~bingo)
    /\ (caller = "threshold" /\ i = 5) => (score = 5 /\ bingo)

\* C6: the score is always between 0 and 12, and no step decreases it.
C6_ScoreMonotoneAndBounded ==
    /\ [](score \in 0..12)
    /\ [][score' >= score]_vars

C6_Witness == Returned /\ previous.called /\ score = 12

\* C7: the accumulated set holds only catalogue names, whatever keys the
\* responses carried, and it is empty right after construction.
C7_FoundWithinCatalogue ==
    /\ found_patterns \subseteq PatternNames
    /\ outcome = "none" => found_patterns = {}

C7_Witness ==
    /\ Returned
    /\ "other" \in DOMAIN response
    /\ found_patterns # {}

SameCallTwice == Returned /\ previous.called /\ previous.response = response

\* C8: the second of two calls in a row with the same response returns what
\* the first returned and leaves the score and the accumulated set as the
\* first left them.
C8_SecondCallChangesNothing ==
    SameCallTwice =>
        /\ found = previous.found
        /\ score = get_score(previous.found_patterns)
        /\ found_patterns = previous.found_patterns

C8_Witness == SameCallTwice /\ Len(found) = 4 /\ caller = "client"

\* C9: after a call the accumulated set is the set before the call united
\* with the returned names; the returned list has no duplicates and holds
\* exactly the names the response matches, whatever was accumulated before.
C9_UnionAndPerCallResult ==
    Returned =>
        /\ found_patterns = previous.found_patterns \cup Range(found)
        /\ NoDuplicates(found)
        /\ Range(found) = MatchedNames(response)

C9_Witness ==
    /\ Returned
    /\ previous.found_patterns # {}
    /\ found # <<>>
    /\ ~ (previous.found_patterns \subseteq Range(found))
    /\ ~ (Range(found) \subseteq previous.found_patterns)

\* C10: every call returns and none raises; a catalogue name that is not a key
\* of the response is not in the result; on a fresh matcher the empty response
\* returns the empty result and leaves the score at 0.
C10_TotalOverMappings ==
    outcome # "none" =>
        /\ Returned
        /\ \A n \in PatternNames : n \notin DOMAIN response => ~Matched(n)
        /\ (response = EmptyResponse /\ ~previous.called) =>
               (found = <<>> /\ score = 0)

C10_Witness ==
    /\ Returned
    /\ caller = "once"
    /\ "fault" \in DOMAIN response
    /\ response["fault"].kind = "list"
    /\ found = <<>>

====
